---- MODULE Spec2Model ----
(***************************************************************************)
(* A model of the usb_webcam HTTP driver                                   *)
(* (src/iot_driver_copilot/usb_webcam/driver.py): the VideoWorker thread   *)
(* that owns the capture handle and publishes JPEG frames into the frame   *)
(* slot (_last_jpeg, _last_ts), the /frame and /stream request handlers    *)
(* that read the slot, the caller of VideoWorker.stop(), and main with its *)
(* signal handler; of the USBCamera class of the logitech_camera driver    *)
(* (src/iot_driver_copilot/logitech_camera/driver.py) with its two locks;  *)
(* and of the camera managers of logitech_web_camera, logitech_brio_505,   *)
(* usb_camera, logitech_usb_camera and usb_camera_device_fake_test and the *)
(* ModbusCollector of the rs_ws_n_01_8_ex sensor driver.  The drivers are  *)
(* separate programs: each specification runs one of them and leaves the   *)
(* state of the others at its initial value.                               *)
(*                                                                         *)
(* Time is the reading of time.time() in abstract ticks; the clock is      *)
(* advanced by the environment (Tick), so two readings with no tick in     *)
(* between are equal.  Backoff values are in units of one _sleep_ms step.  *)
(* A frame's bytes are identified by the index of the publish that stored  *)
(* them.  A capture handle is identified by the index of the open that     *)
(* created it; 0 stands for None.                                          *)
(***************************************************************************)
EXTENDS Integers, Naturals, Sequences, FiniteSets, TLC

\* ------------------------------------------------------------------ bounds
\* The environment's behaviour is cut off at these bounds.
MaxClock == 3
MaxFrames == 3
MaxOpens == 2
MaxFails == 3
\* logitech_camera: how often the camera is opened
MaxCameraOpens == 2
MaxCaps == 2             \* VideoCaptures the CameraManager's requests create
MaxBrioCaps == 2         \* captures the logitech_brio_505 requests open
MaxWaits == 3            \* backoff waits of the ModbusCollector in a row
MaxStreamerCaps == 2     \* captures the usb_camera CameraStreamer creates
MaxSessions == 2         \* capture sessions logitech_usb_camera starts
MaxStreamers == 2        \* CameraStreamer threads the fake_test driver creates

\* ------------------------------------------------ configuration (Config)
\* Values read from the environment by Config.__init__.
backoff_multiplier == 2
stale_timeout_sec == 1
loop_sleep_ms == 1
stream_min_interval_ms == 1
\* The step of VideoWorker._sleep_ms, the unit of the backoff values.
SleepStep == 1

\* BACKOFF_INITIAL_MS and BACKOFF_MAX_MS as the specifications draw them.
poll_interval_sec == 2
SecInitialChoices == {0, 1, 3}
SecMaxChoices == {2, 5}
InitialChoices == {0, 1, 2}
MaxChoices == {1, 3}

\* The threads serving /stream requests.
Handlers == {"h1", "h2"}

Min(a, b) == IF a <= b THEN a ELSE b
Max(a, b) == IF a >= b THEN a ELSE b

VARIABLES
    \* Config
    backoff_initial_ms, backoff_max_ms,
    \* the environment's clock: what time.time() returns
    clock,
    \* VideoWorker fields
    stop_event, cap, last_jpeg, last_ts,
    \* VideoWorker._run: position and locals
    wpc, backoff_ms, last_success_ts, now, delay, remaining,
    \* the capture handles: how many were opened, how often each was released
    opened, relCount,
    \* the caller of VideoWorker.stop(): position and the handle it releases
    mpc, m_handle,
    \* RequestHandler._handle_stream, per handler thread
    hpc, h_jpeg, h_ts, last_sent_ts,
    \* history: the number of publishes so far; per handler the frames written
    \* to its client, each as <<bytes, stamp>>
    npub, sent,
    \* history of the worker's reconnect logic: backoff sleeps completed since
    \* backoff_ms was last set to its initial value, failed opens in a row,
    \* whether a read failed since last_success_ts was last assigned
    nsleeps, nfailedOpens, readFailSinceSuccess,
    \* RequestHandler._handle_frame: the status of the last response (0: none
    \* yet) and whether the worker held no handle when the slot was read
    frame_status, frame_disconnected,
    \* main: the position of the main thread; the position of handle_signal,
    \* which runs on the main thread and suspends it; the event stopping; the
    \* server's shutdown request flag and its event is_shut_down
    main_pc, sig_pc, stopping, shutdown_request, is_shut_down,
    \* per /stream handler: whether its client has closed the connection
    gone,
    \* history: the pair <<bytes, stamp>> the last publish was made with
    pub_pair,
    \* logitech_camera, USBCamera fields: the capture handle (0: None), the
    \* flags, the stop event of the recording, and the holders of the two locks
    camera, streaming, recording, record_stop_event, streaming_lock,
    recording_lock,
    \* logitech_camera: how many handles were opened; the positions of the
    \* threads running get_frame, gen_stream, stop and record; the handle
    \* record_loop is reading
    cam_opened, gpc, spc, ppc, rpc, r_handle,
    \* logitech_camera, further requests: the position (r2pc) and result of a
    \* second record(), whether (history) a recording was in progress when it
    \* arrived, and the position (xpc) and result of switch_camera
    call,
    \* logitech_web_camera CameraManager, camera_id 0: the cameras and locks
    \* tables (0: no entry), the locks that are held, the VideoCaptures
    \* created and released, each request thread's position and local cap
    mgr,
    \* logitech_brio_505 CameraManager: the keys of its cameras table, each
    \* entry's running flag and capture (0: None), manager_lock, the captures
    \* created, those for which isOpened() holds and those released, and each
    \* request thread's position, camera_id and result
    brio,
    \* rs_ws_n_01_8_ex sensor, ModbusCollector: the configuration, _stop_event,
    \* _client ("none": None, "built": a client that is not connected,
    \* "connected"), _backoff_current, the thread's position, the wait_s of
    \* its last backoff wait, what is left of the wait it is in, and (history)
    \* the backoff waits since the last successful _connect
    col,
    \* usb_camera CameraStreamer: cap (0: None, else the capture), the holder
    \* of self.lock, streaming, stop_request, the captures created and those
    \* released, and each thread's position
    ks,
    \* logitech_usb_camera CameraManager: capture (0: None, else the number of
    \* the session that created it), running, last_frame (0: None, else the
    \* session whose capture it was read from), the sessions started, each
    \* frame thread's position, the capture it is reading and the frame it
    \* holds, and (history) the frame and session of the last get_frame
    lu,
    \* usb_camera_device_fake_test: the globals streaming, camera_streamer
    \* (0: None, else the thread) and last_frame (0: None, else the thread
    \* that stored it), the CameraStreamer threads created, each thread's
    \* position (cs_pc), running flag and whether it holds an open capture,
    \* and each request's position
    fk

cfgVars == <<backoff_initial_ms, backoff_max_ms>>
workerVars == <<wpc, backoff_ms, last_success_ts, now, delay, remaining>>
slotVars == <<last_jpeg, last_ts, npub, pub_pair>>
capVars == <<cap, opened, relCount>>
stopVars == <<mpc, m_handle>>
handlerVars == <<hpc, h_jpeg, h_ts, last_sent_ts, sent>>
histVars == <<nsleeps, nfailedOpens, readFailSinceSuccess>>
frameVars == <<frame_status, frame_disconnected>>
\* What the worker, stop() and the stream handlers leave alone.
mainVars == <<main_pc, sig_pc, stopping, shutdown_request, is_shut_down>>
clientVars == <<gone>>
cameraVars == <<camera, streaming, recording, record_stop_event,
                streaming_lock, recording_lock, cam_opened, gpc, spc, ppc, rpc,
                r_handle>>
\* The state of the drivers other than usb_webcam and logitech_camera, one
\* record each.
driversVars == <<mgr, brio, col, ks, lu, fk>>
\* What the actions of usb_webcam and the first requests of logitech_camera
\* leave alone.
restVars == <<call, driversVars>>
moreVars == <<frameVars, mainVars, clientVars, cameraVars, restVars>>
\* The state of the usb_webcam driver, which logitech_camera leaves alone.
webcamVars == <<cfgVars, clock, stop_event, workerVars, slotVars, capVars,
                stopVars, handlerVars, histVars, frameVars, mainVars,
                clientVars>>
\* What each of the other drivers leaves alone.
notManager == <<webcamVars, cameraVars, call, brio, col, ks, lu, fk>>
notBrio == <<webcamVars, cameraVars, call, mgr, col, ks, lu, fk>>
notCollector == <<webcamVars, cameraVars, call, mgr, brio, ks, lu, fk>>
notStreamer == <<webcamVars, cameraVars, call, mgr, brio, col, lu, fk>>
notSession == <<webcamVars, cameraVars, call, mgr, brio, col, ks, fk>>
notFake == <<webcamVars, cameraVars, call, mgr, brio, col, ks, lu>>

vars == <<cfgVars, clock, stop_event, workerVars, slotVars, capVars, stopVars,
          handlerVars, histVars, moreVars>>

\* ------------------------------------------------------------------- Init
\* The state after VideoWorker.__init__ and VideoWorker.start(), with the
\* server listening and no request accepted yet.
\* logitech_camera: the state after USBCamera.__init__, no request running.
CameraInit ==
    /\ camera = 0
    /\ streaming = FALSE
    /\ recording = FALSE
    /\ record_stop_event = FALSE
    /\ streaming_lock = "free"
    /\ recording_lock = "free"
    /\ cam_opened = 0
    /\ gpc = "idle"
    /\ spc = "idle"
    /\ ppc = "idle"
    /\ rpc = "idle"
    /\ r_handle = 0
    /\ call = [r2pc |-> "idle", r2_result |-> "none", r2_during |-> FALSE,
               xpc |-> "idle", x_result |-> "none"]

Requests == {"q1", "q2"}

\* logitech_web_camera: CameraManager.__init__, no request running
ManagerInit ==
    mgr = [cameras |-> 0, locks |-> 0, lock_held |-> {}, caps_opened |-> 0,
           caps_released |-> {}, pc |-> [t \in Requests |-> "idle"],
           cap |-> [t \in Requests |-> 0]]

BrioIds == {0, 1}
BrioRequests == {"b1", "b2"}

\* logitech_brio_505: CameraManager.__init__, no request running
BrioInit ==
    brio = [cameras |-> {}, running |-> [i \in BrioIds |-> FALSE],
            cap |-> [i \in BrioIds |-> 0], manager_lock |-> "free",
            opened |-> 0, is_opened |-> {}, released |-> {},
            pc |-> [t \in BrioRequests |-> "idle"],
            id |-> [t \in BrioRequests |-> 0],
            result |-> [t \in BrioRequests |-> "none"]]

\* usb_camera: the request threads and the device status thread
StreamerRequests == {"k1", "k2"}
StreamerThreads == StreamerRequests \cup {"status"}

\* usb_camera: CameraStreamer.__init__
StreamerInit ==
    ks = [cap |-> 0, lock |-> "free", streaming |-> FALSE,
          stop_request |-> FALSE, opened |-> 0, released |-> {},
          pc |-> [t \in StreamerThreads |-> "idle"]]

\* logitech_usb_camera: CameraManager.__init__; no frame thread exists yet
SessionInit ==
    lu = [capture |-> 0, running |-> FALSE, last_frame |-> 0, sessions |-> 0,
          frame_pc |-> [i \in 1..MaxSessions |-> "unborn"],
          frame_cap |-> [i \in 1..MaxSessions |-> 0],
          frame_local |-> [i \in 1..MaxSessions |-> 0],
          got |-> <<0, 0>>]

\* usb_camera_device_fake_test: the module's globals; no request running
FakeRequests == {"f1", "f2"}

FakeInit ==
    fk = [streaming |-> FALSE, camera_streamer |-> 0, last_frame |-> 0,
          created |-> 0,
          cs_pc |-> [i \in 1..MaxStreamers |-> "unborn"],
          cs_running |-> [i \in 1..MaxStreamers |-> FALSE],
          cs_capture |-> [i \in 1..MaxStreamers |-> FALSE],
          pc |-> [t \in FakeRequests |-> "idle"]]

\* ModbusCollector.__init__ and start() under a configuration
CollectorStart(initial, maximum) ==
    [backoff_initial_sec |-> initial, backoff_max_sec |-> maximum,
     stop_event |-> FALSE, client |-> "none", backoff_current |-> initial,
     pc |-> "loop", wait_s |-> 0, remaining |-> 0, nwaits |-> 0]

InitState ==
    /\ CameraInit
    /\ ManagerInit
    /\ BrioInit
    /\ StreamerInit
    /\ SessionInit
    /\ FakeInit
    /\ clock = 1
    /\ stop_event = FALSE
    /\ cap = 0
    /\ last_jpeg = 0
    /\ last_ts = 0
    /\ wpc = "loop"
    /\ backoff_ms = Max(backoff_initial_ms, 0)
    /\ last_success_ts = 0
    /\ now = 0
    /\ delay = 0
    /\ remaining = 0
    /\ opened = 0
    /\ relCount = [h \in 1..MaxOpens |-> 0]
    /\ mpc = "serving"
    /\ m_handle = 0
    /\ hpc = [h \in Handlers |-> "idle"]
    /\ h_jpeg = [h \in Handlers |-> 0]
    /\ h_ts = [h \in Handlers |-> 0]
    /\ last_sent_ts = [h \in Handlers |-> 0]
    /\ npub = 0
    /\ sent = [h \in Handlers |-> <<>>]
    /\ nsleeps = 0
    /\ nfailedOpens = 0
    /\ readFailSinceSuccess = FALSE
    /\ frame_status = 0
    /\ frame_disconnected = FALSE
    /\ main_pc = "serve_forever"
    /\ sig_pc = "none"
    /\ stopping = FALSE
    /\ shutdown_request = FALSE
    /\ is_shut_down = FALSE
    /\ gone = [h \in Handlers |-> FALSE]
    /\ pub_pair = <<0, 0>>

Init ==
    /\ backoff_initial_ms = 1
    /\ backoff_max_ms = 3
    /\ col = CollectorStart(1, 3)
    /\ InitState

\* ------------------------------------------------------------ environment
\* time.time() moves on.
Tick ==
    /\ clock < MaxClock
    /\ clock' = clock + 1
    /\ UNCHANGED <<moreVars, cfgVars, stop_event, workerVars, slotVars, capVars, stopVars,
                   handlerVars, histVars>>

\* ----------------------------------------------------- VideoWorker._run
\* delay = min(backoff_ms, self.cfg.backoff_max_ms)
BackoffDelay(b) == Min(b, backoff_max_ms)

\* NextBackoff with the multiplication left out.
NextBackoffNoGrowth(b) == Min(backoff_max_ms, Max(1, b))

\* backoff_ms = int(min(backoff_max_ms, max(1, backoff_ms) * multiplier))
NextBackoff(b) == Min(backoff_max_ms, Max(1, b) * backoff_multiplier)

\* The value backoff_ms gets on a successful open.
ResetBackoff == backoff_initial_ms

\* IsStale with the difference taken the wrong way round.
IsStaleReversed(n, last) == last > 0 /\ (last - n) > stale_timeout_sec

\* IsStale with the timeout taken as zero: every failed read reconnects.
IsStaleAtOnce(n, last) == last > 0 /\ (n - last) >= 0

\* last_success_ts > 0 and (now - last_success_ts) > stale_timeout_sec
IsStale(n, last) == last > 0 /\ (n - last) > stale_timeout_sec

\* while not self._stop_event.is_set(): if self._cap is None: open, else read
WLoop ==
    /\ wpc = "loop"
    /\ wpc' = IF stop_event THEN "done"
              ELSE IF cap = 0 THEN "opening" ELSE "reading"
    /\ UNCHANGED <<moreVars, cfgVars, clock, stop_event, backoff_ms, last_success_ts, now,
                   delay, remaining, slotVars, capVars, stopVars, handlerVars,
                   histVars>>

\* _open_capture returned a capture: connected, backoff reset, then cap.read()
WOpenOk ==
    /\ wpc = "opening"
    /\ opened < MaxOpens
    /\ opened' = opened + 1
    /\ cap' = opened + 1
    /\ backoff_ms' = ResetBackoff
    /\ last_success_ts' = clock
    /\ wpc' = "reading"
    /\ nsleeps' = 0
    /\ nfailedOpens' = 0
    /\ readFailSinceSuccess' = FALSE
    /\ UNCHANGED <<moreVars, cfgVars, clock, stop_event, now, delay, remaining, slotVars,
                   relCount, stopVars, handlerVars>>

\* _open_capture returned None: sleep the backoff delay
WOpenFail ==
    /\ wpc = "opening"
    /\ nfailedOpens < MaxFails
    /\ delay' = BackoffDelay(backoff_ms)
    /\ remaining' = delay'
    /\ wpc' = "sleep_backoff"
    /\ nfailedOpens' = nfailedOpens + 1
    /\ UNCHANGED <<moreVars, cfgVars, clock, stop_event, backoff_ms, last_success_ts, now,
                   slotVars, capVars, stopVars, handlerVars, nsleeps,
                   readFailSinceSuccess>>

\* WSleepStep without the test of the stop event.
WSleepStepIgnoresStop ==
    /\ wpc \in {"sleep_backoff", "sleep_loop"}
    /\ remaining > 0
    /\ remaining' = remaining - Min(SleepStep, remaining)
    /\ UNCHANGED <<moreVars, cfgVars, clock, stop_event, wpc, backoff_ms, last_success_ts,
                   now, delay, slotVars, capVars, stopVars, handlerVars,
                   histVars>>

\* one round of _sleep_ms: time.sleep(min(step, remaining))
WSleepStep ==
    /\ wpc \in {"sleep_backoff", "sleep_loop"}
    /\ remaining > 0 /\ ~stop_event
    /\ remaining' = remaining - Min(SleepStep, remaining)
    /\ UNCHANGED <<moreVars, cfgVars, clock, stop_event, wpc, backoff_ms, last_success_ts,
                   now, delay, slotVars, capVars, stopVars, handlerVars,
                   histVars>>

\* _sleep_ms returns; after a backoff sleep the backoff grows; continue
WSleepEnd ==
    /\ wpc \in {"sleep_backoff", "sleep_loop"}
    /\ remaining <= 0 \/ stop_event
    /\ backoff_ms' = IF wpc = "sleep_backoff" THEN NextBackoff(backoff_ms)
                     ELSE backoff_ms
    /\ nsleeps' = IF wpc = "sleep_backoff" THEN nsleeps + 1 ELSE nsleeps
    /\ remaining' = 0
    /\ delay' = 0    \* not read again before the next sleep assigns it
    /\ wpc' = "loop"
    /\ UNCHANGED <<moreVars, cfgVars, clock, stop_event, last_success_ts, now,
                   slotVars, capVars, stopVars, handlerVars, nfailedOpens,
                   readFailSinceSuccess>>

\* ret, frame = self._cap.read() with a frame; now = time.time()
WReadOk ==
    /\ wpc = "reading"
    /\ relCount[cap] = 0
    /\ npub < MaxFrames
    /\ now' = clock
    /\ wpc' = "encode"
    /\ UNCHANGED <<moreVars, cfgVars, clock, stop_event, backoff_ms, last_success_ts,
                   delay, remaining, slotVars, capVars, stopVars, handlerVars,
                   histVars>>

\* self._cap.read() without a frame; now = time.time(); "Camera read failed"
WReadFail ==
    /\ wpc = "reading"
    /\ now' = clock
    /\ wpc' = "stale_check"
    /\ readFailSinceSuccess' = TRUE
    /\ UNCHANGED <<moreVars, cfgVars, clock, stop_event, backoff_ms, last_success_ts,
                   delay, remaining, slotVars, capVars, stopVars, handlerVars,
                   nsleeps, nfailedOpens>>

\* Publish that stores the bytes and leaves the stamp of the publish before.
PublishTorn(data, ts) ==
    /\ last_jpeg' = data
    /\ last_ts' = last_ts
    /\ npub' = npub + 1
    /\ pub_pair' = <<data, ts>>

\* with self._lock: self._last_jpeg = data; self._last_ts = now
Publish(data, ts) ==
    /\ last_jpeg' = data
    /\ last_ts' = ts
    /\ npub' = npub + 1
    /\ pub_pair' = <<data, ts>>

\* cv2.imencode succeeded: publish the frame, last_success_ts = now
WEncodeOk ==
    /\ wpc = "encode"
    /\ Publish(npub + 1, now)
    /\ last_success_ts' = now
    /\ readFailSinceSuccess' = FALSE
    /\ wpc' = "stale_check"
    /\ UNCHANGED <<moreVars, cfgVars, clock, stop_event, backoff_ms, now, delay, remaining,
                   capVars, stopVars, handlerVars, nsleeps, nfailedOpens>>

\* cv2.imencode returned ok = False or raised: logged, nothing stored
WEncodeFail ==
    /\ wpc = "encode"
    /\ wpc' = "stale_check"
    /\ UNCHANGED <<moreVars, cfgVars, clock, stop_event, backoff_ms, last_success_ts, now,
                   delay, remaining, slotVars, capVars, stopVars, handlerVars,
                   histVars>>

\* the staleness test: release the capture, or sleep loop_sleep_ms
WStaleCheck ==
    /\ wpc = "stale_check"
    /\ IF IsStale(now, last_success_ts)
       THEN /\ wpc' = "releasing"
            /\ remaining' = remaining
       ELSE /\ wpc' = "sleep_loop"
            /\ remaining' = loop_sleep_ms
    /\ now' = 0    \* not read again before the next read assigns it
    /\ UNCHANGED <<moreVars, cfgVars, clock, stop_event, backoff_ms, last_success_ts,
                   delay, slotVars, capVars, stopVars, handlerVars, histVars>>

\* WReleaseDone that also empties the frame slot on the disconnect.
WReleaseDoneClearsSlot ==
    /\ wpc = "releasing"
    /\ relCount' = [relCount EXCEPT ![cap] = Min(@ + 1, 2)]
    /\ cap' = 0
    /\ delay' = BackoffDelay(backoff_ms)
    /\ remaining' = delay'
    /\ wpc' = "sleep_backoff"
    /\ last_jpeg' = 0
    /\ last_ts' = 0
    /\ UNCHANGED <<moreVars, cfgVars, clock, stop_event, backoff_ms, last_success_ts, now,
                   npub, pub_pair, opened, stopVars, handlerVars, histVars>>

\* self._cap.release() returned; self._cap = None; sleep the backoff delay
WReleaseDone ==
    /\ wpc = "releasing"
    /\ relCount' = [relCount EXCEPT ![cap] = Min(@ + 1, 2)]
    /\ cap' = 0
    /\ delay' = BackoffDelay(backoff_ms)
    /\ remaining' = delay'
    /\ wpc' = "sleep_backoff"
    /\ UNCHANGED <<moreVars, cfgVars, clock, stop_event, backoff_ms, last_success_ts, now,
                   slotVars, opened, stopVars, handlerVars, histVars>>

WorkerNext ==
    \/ WLoop
    \/ WOpenOk
    \/ WOpenFail
    \/ WSleepStep
    \/ WSleepEnd
    \/ WReadOk
    \/ WReadFail
    \/ WEncodeOk
    \/ WEncodeFail
    \/ WStaleCheck
    \/ WReleaseDone

\* ---------------------------------------------------- VideoWorker.stop
\* The device calls in which the worker thread can stay longer than the
\* 5 seconds stop() waits for it.
WorkerInDeviceCall == wpc \in {"opening", "reading", "releasing"}

\* self._stop_event.set(); then self._thread.join(timeout=5.0) begins
MStop ==
    /\ mpc = "serving"
    /\ stop_event' = TRUE
    /\ mpc' = "join"
    /\ UNCHANGED <<moreVars, cfgVars, clock, workerVars, slotVars, capVars, m_handle,
                   handlerVars, histVars>>

\* join returns: the thread has ended, or the timeout ran out
JoinReturns == wpc = "done" \/ WorkerInDeviceCall

\* self._thread.join(timeout=5.0) returns; if self._cap is not None:
MJoin ==
    /\ mpc = "join"
    /\ JoinReturns
    /\ mpc' = IF cap # 0 THEN "release_call" ELSE "stopped"
    /\ UNCHANGED <<moreVars, cfgVars, clock, stop_event, workerVars, slotVars, capVars,
                   m_handle, handlerVars, histVars>>

\* self._cap.release() is called: self._cap is read again; on None the
\* AttributeError is swallowed by except Exception
MReleaseCall ==
    /\ mpc = "release_call"
    /\ IF cap # 0
       THEN /\ m_handle' = cap
            /\ mpc' = "releasing"
       ELSE /\ m_handle' = m_handle
            /\ mpc' = "stopped"
    /\ UNCHANGED <<moreVars, cfgVars, clock, stop_event, workerVars, slotVars, capVars,
                   handlerVars, histVars>>

\* the release returned; "Video worker stopped"
MReleaseDone ==
    /\ mpc = "releasing"
    /\ relCount' = [relCount EXCEPT ![m_handle] = Min(@ + 1, 2)]
    /\ mpc' = "stopped"
    /\ UNCHANGED <<moreVars, cfgVars, clock, stop_event, workerVars, slotVars, cap, opened,
                   m_handle, handlerVars, histVars>>

StopNext ==
    \/ MStop
    \/ MJoin
    \/ MReleaseCall
    \/ MReleaseDone

\* stop() is called again after it has returned: the event is set once more
\* and the join begins
MStopAgain ==
    /\ mpc = "stopped"
    /\ stop_event' = TRUE
    /\ mpc' = "join"
    /\ UNCHANGED <<moreVars, cfgVars, clock, workerVars, slotVars, capVars,
                   m_handle, handlerVars, histVars>>

\* ------------------------------------------------------------------ main
\* The main thread runs its own code only while no signal handler is
\* running on it.
MainRuns == sig_pc # "shutdown_wait"

\* SIGINT or SIGTERM is delivered: handle_signal runs on the main thread,
\* sets stopping and calls server.shutdown(), which sets the shutdown request
\* and waits for is_shut_down
MSignal ==
    /\ sig_pc = "none"
    /\ main_pc # "end"
    /\ stopping' = TRUE
    /\ shutdown_request' = TRUE
    /\ sig_pc' = "shutdown_wait"
    /\ UNCHANGED <<frameVars, clientVars, cameraVars, restVars, main_pc, is_shut_down, cfgVars, clock, stop_event,
                   workerVars, slotVars, capVars, stopVars, handlerVars,
                   histVars>>

\* server.shutdown() returns once is_shut_down is set; handle_signal returns
MShutdownReturns ==
    /\ sig_pc = "shutdown_wait"
    /\ is_shut_down
    /\ sig_pc' = "returned"
    /\ UNCHANGED <<frameVars, clientVars, cameraVars, restVars, main_pc, stopping, shutdown_request, is_shut_down,
                   cfgVars, clock, stop_event, workerVars, slotVars, capVars,
                   stopVars, handlerVars, histVars>>

\* server.serve_forever() ends on the main thread, because its loop finds
\* the shutdown request or because a call in it raises: the request flag is
\* cleared and is_shut_down is set
MServeForeverEnds ==
    /\ main_pc = "serve_forever"
    /\ MainRuns
    /\ shutdown_request' = FALSE
    /\ is_shut_down' = TRUE
    /\ main_pc' = "server_close"
    /\ UNCHANGED <<frameVars, clientVars, cameraVars, restVars, sig_pc, stopping, cfgVars, clock, stop_event,
                   workerVars, slotVars, capVars, stopVars, handlerVars,
                   histVars>>

\* finally: server.server_close()
MServerClose ==
    /\ main_pc = "server_close"
    /\ MainRuns
    /\ main_pc' = "stop"
    /\ UNCHANGED <<frameVars, clientVars, cameraVars, restVars, sig_pc, stopping, shutdown_request, is_shut_down,
                   cfgVars, clock, stop_event, workerVars, slotVars, capVars,
                   stopVars, handlerVars, histVars>>

\* finally: worker.stop(), step by step
MainStop ==
    /\ main_pc = "stop"
    /\ MainRuns
    /\ StopNext

\* worker.stop() has returned: "Driver terminated", main returns
MainEnd ==
    /\ main_pc = "stop"
    /\ MainRuns
    /\ mpc = "stopped"
    /\ main_pc' = "end"
    /\ UNCHANGED <<frameVars, clientVars, cameraVars, restVars, sig_pc, stopping, shutdown_request, is_shut_down,
                   cfgVars, clock, stop_event, workerVars, slotVars, capVars,
                   stopVars, handlerVars, histVars>>

\* ------------------------------------------- VideoWorker.get_latest_frame
\* with self._lock: (None, 0.0) if nothing is stored, else the stored pair
GetLatestFrame == IF last_jpeg = 0 THEN <<0, 0>> ELSE <<last_jpeg, last_ts>>

\* ------------------------------------------ RequestHandler._handle_frame
\* GET /frame: 503 "No frame available yet" if get_latest_frame returns
\* None, else 200 with the JPEG
HandleFrame ==
    /\ frame_status' = IF GetLatestFrame[1] = 0 THEN 503 ELSE 200
    /\ frame_disconnected' = (cap = 0)
    /\ UNCHANGED <<mainVars, clientVars, cameraVars, restVars, cfgVars, clock, stop_event, workerVars, slotVars, capVars,
                   stopVars, handlerVars, histVars>>

\* ----------------------------------------- RequestHandler._handle_stream
min_interval == stream_min_interval_ms

\* ShouldSkip with ts < last_sent_ts for ts <= last_sent_ts.
ShouldSkipResends(ts, last, n) ==
    ts < last \/ (min_interval > 0 /\ (n - last) < min_interval)

\* ts <= last_sent_ts or (min_interval > 0 and (now - last_sent_ts) < min_interval)
ShouldSkip(ts, last, n) ==
    ts <= last \/ (min_interval > 0 /\ (n - last) < min_interval)

\* last_sent_ts = ts if ts > 0 else now
SentStamp(ts, n) == IF ts > 0 THEN ts ELSE n

\* a client requests /stream: headers sent, last_sent_ts = 0.0
HConnect(h) ==
    /\ hpc[h] = "idle"
    /\ hpc' = [hpc EXCEPT ![h] = "get"]
    /\ last_sent_ts' = [last_sent_ts EXCEPT ![h] = 0]
    /\ UNCHANGED <<moreVars, cfgVars, clock, stop_event, workerVars, slotVars, capVars,
                   stopVars, h_jpeg, h_ts, sent, histVars>>

\* jpeg, ts = self.worker.get_latest_frame(); on None sleep 0.05 and poll again
HGet(h) ==
    /\ hpc[h] = "get"
    /\ h_jpeg' = [h_jpeg EXCEPT ![h] = GetLatestFrame[1]]
    /\ h_ts' = [h_ts EXCEPT ![h] = GetLatestFrame[2]]
    /\ hpc' = [hpc EXCEPT ![h] = IF GetLatestFrame[1] = 0 THEN "get" ELSE "check"]
    /\ UNCHANGED <<moreVars, cfgVars, clock, stop_event, workerVars, slotVars, capVars,
                   stopVars, last_sent_ts, sent, histVars>>

\* HSkip that waits for a notification, which nothing sends, instead of
\* polling again.
HSkipWaits(h) ==
    /\ hpc[h] = "check"
    /\ ShouldSkip(h_ts[h], last_sent_ts[h], clock)
    /\ hpc' = [hpc EXCEPT ![h] = "wait"]
    /\ h_jpeg' = [h_jpeg EXCEPT ![h] = 0]
    /\ h_ts' = [h_ts EXCEPT ![h] = 0]
    /\ UNCHANGED <<moreVars, cfgVars, clock, stop_event, workerVars, slotVars, capVars,
                   stopVars, last_sent_ts, sent, histVars>>

\* now = time.time(); the frame is not newer or too early: sleep 0.01, poll again
HSkip(h) ==
    /\ hpc[h] = "check"
    /\ ShouldSkip(h_ts[h], last_sent_ts[h], clock)
    /\ hpc' = [hpc EXCEPT ![h] = "get"]
    /\ h_jpeg' = [h_jpeg EXCEPT ![h] = 0]
    /\ h_ts' = [h_ts EXCEPT ![h] = 0]
    /\ UNCHANGED <<moreVars, cfgVars, clock, stop_event, workerVars, slotVars, capVars,
                   stopVars, last_sent_ts, sent, histVars>>

\* HSend without the assignment to last_sent_ts.
HSendNoUpdate(h) ==
    /\ hpc[h] = "check"
    /\ ~ShouldSkip(h_ts[h], last_sent_ts[h], clock)
    /\ sent' = [sent EXCEPT ![h] = Append(@, <<h_jpeg[h], h_ts[h]>>)]
    /\ hpc' = [hpc EXCEPT ![h] = "get"]
    /\ h_jpeg' = [h_jpeg EXCEPT ![h] = 0]
    /\ h_ts' = [h_ts EXCEPT ![h] = 0]
    /\ UNCHANGED <<moreVars, cfgVars, clock, stop_event, workerVars, slotVars, capVars,
                   stopVars, last_sent_ts, histVars>>

\* the part is written and flushed; last_sent_ts = ts if ts > 0 else now
HSend(h) ==
    /\ hpc[h] = "check"
    /\ ~ShouldSkip(h_ts[h], last_sent_ts[h], clock)
    /\ sent' = [sent EXCEPT ![h] = Append(@, <<h_jpeg[h], h_ts[h]>>)]
    /\ last_sent_ts' = [last_sent_ts EXCEPT ![h] = SentStamp(h_ts[h], clock)]
    /\ hpc' = [hpc EXCEPT ![h] = "get"]
    /\ h_jpeg' = [h_jpeg EXCEPT ![h] = 0]
    /\ h_ts' = [h_ts EXCEPT ![h] = 0]
    /\ UNCHANGED <<moreVars, cfgVars, clock, stop_event, workerVars, slotVars, capVars,
                   stopVars, histVars>>

\* a write raises (BrokenPipeError or another exception): break
HWriteFail(h) ==
    /\ hpc[h] = "check"
    /\ ~ShouldSkip(h_ts[h], last_sent_ts[h], clock)
    /\ hpc' = [hpc EXCEPT ![h] = "done"]
    /\ h_jpeg' = [h_jpeg EXCEPT ![h] = 0]
    /\ h_ts' = [h_ts EXCEPT ![h] = 0]
    /\ UNCHANGED <<moreVars, cfgVars, clock, stop_event, workerVars, slotVars, capVars,
                   stopVars, last_sent_ts, sent, histVars>>

\* the client of a running /stream request closes the connection
HDisconnect(h) ==
    /\ hpc[h] \in {"get", "check"}
    /\ ~gone[h]
    /\ gone' = [gone EXCEPT ![h] = TRUE]
    /\ UNCHANGED <<frameVars, mainVars, cameraVars, restVars, cfgVars, clock, stop_event,
                   workerVars, slotVars, capVars, stopVars, handlerVars,
                   histVars>>

HandlerNext(h) ==
    \/ HConnect(h)
    \/ HGet(h)
    \/ HSkip(h)
    \/ HSend(h)
    \/ HWriteFail(h)

\* ------------------------------------------- logitech_camera: USBCamera
\* not self.streaming or self.camera is None
NotStarted == ~streaming \/ camera = 0

\* start(): under streaming_lock; nothing if already streaming, else the
\* camera is opened (streaming = True) or the open fails (camera = None)
CStart ==
    /\ streaming_lock = "free"
    /\ IF streaming
       THEN UNCHANGED <<camera, streaming, cam_opened>>
       ELSE \/ /\ cam_opened < MaxCameraOpens
               /\ cam_opened' = cam_opened + 1
               /\ camera' = cam_opened + 1
               /\ streaming' = TRUE
            \/ /\ camera' = 0
               /\ UNCHANGED <<streaming, cam_opened>>
    /\ UNCHANGED <<webcamVars, restVars, recording, record_stop_event, streaming_lock,
                   recording_lock, gpc, spc, ppc, rpc, r_handle>>

\* get_frame takes streaming_lock: "Camera not started", or camera.read()
\* begins with the lock held
GBegin ==
    /\ gpc = "idle"
    /\ streaming_lock = "free"
    /\ IF NotStarted
       THEN UNCHANGED <<gpc, streaming_lock>>
       ELSE gpc' = "reading" /\ streaming_lock' = "get_frame"
    /\ UNCHANGED <<webcamVars, restVars, camera, streaming, recording, record_stop_event,
                   recording_lock, cam_opened, spc, ppc, rpc, r_handle>>

\* get_frame: camera.read() has returned; the frame is encoded and stored,
\* or the failure reported; the lock is released
GReadReturns ==
    /\ gpc = "reading"
    /\ gpc' = "idle"
    /\ streaming_lock' = "free"
    /\ UNCHANGED <<webcamVars, restVars, camera, streaming, recording, record_stop_event,
                   recording_lock, cam_opened, spc, ppc, rpc, r_handle>>

\* a /camera/stream response starts to run the generator gen_stream
SConnect ==
    /\ spc = "idle"
    /\ spc' = "loop"
    /\ UNCHANGED <<webcamVars, restVars, camera, streaming, recording, record_stop_event,
                   streaming_lock, recording_lock, cam_opened, gpc, ppc, rpc,
                   r_handle>>

\* gen_stream takes streaming_lock: break if not started, else camera.read()
\* begins with the lock held
SBegin ==
    /\ spc = "loop"
    /\ streaming_lock = "free"
    /\ IF NotStarted
       THEN spc' = "idle" /\ UNCHANGED streaming_lock
       ELSE spc' = "reading" /\ streaming_lock' = "gen_stream"
    /\ UNCHANGED <<webcamVars, restVars, camera, streaming, recording, record_stop_event,
                   recording_lock, cam_opened, gpc, ppc, rpc, r_handle>>

\* gen_stream: camera.read() has returned; the lock is released; the frame
\* is yielded and the generator sleeps, or the loop continues at once
SReadReturns ==
    /\ spc = "reading"
    /\ spc' = "loop"
    /\ streaming_lock' = "free"
    /\ UNCHANGED <<webcamVars, restVars, camera, streaming, recording, record_stop_event,
                   recording_lock, cam_opened, gpc, ppc, rpc, r_handle>>

\* stop() takes streaming_lock; camera.release() begins if there is a handle
PBegin ==
    /\ ppc = "idle"
    /\ streaming_lock = "free"
    /\ streaming_lock' = "stop"
    /\ ppc' = IF camera # 0 THEN "releasing" ELSE "released"
    /\ UNCHANGED <<webcamVars, restVars, camera, streaming, recording, record_stop_event,
                   recording_lock, cam_opened, gpc, spc, rpc, r_handle>>

\* stop(): camera.release() has returned (or was not needed); camera = None,
\* streaming = False, streaming_lock released
PReleaseReturns ==
    /\ ppc \in {"releasing", "released"}
    /\ camera' = 0
    /\ streaming' = FALSE
    /\ streaming_lock' = "free"
    /\ ppc' = "recording_lock"
    /\ UNCHANGED <<webcamVars, restVars, recording, record_stop_event, recording_lock,
                   cam_opened, gpc, spc, rpc, r_handle>>

\* stop(): with self.recording_lock: if self.recording: set the stop event
PRecordingLock ==
    /\ ppc = "recording_lock"
    /\ recording_lock = "free"
    /\ record_stop_event' = (record_stop_event \/ recording)
    /\ ppc' = "idle"
    /\ UNCHANGED <<webcamVars, restVars, camera, streaming, recording, streaming_lock,
                   recording_lock, cam_opened, gpc, spc, rpc, r_handle>>

\* record() takes recording_lock: "Already recording" or "Camera not
\* started", or recording = True, the stop event cleared, and record_loop is
\* started and joined with the lock held
RBegin ==
    /\ rpc = "idle"
    /\ recording_lock = "free"
    /\ IF recording \/ NotStarted
       THEN UNCHANGED <<recording, record_stop_event, recording_lock, rpc>>
       ELSE /\ recording' = TRUE
            /\ record_stop_event' = FALSE
            /\ recording_lock' = "record"
            /\ rpc' = "loop"
    /\ UNCHANGED <<webcamVars, restVars, camera, streaming, streaming_lock, cam_opened,
                   gpc, spc, ppc, r_handle>>

\* record_loop: if not self.streaming or self.camera is None or
\* self.record_stop_event.is_set(): break
RLoop ==
    /\ rpc = "loop"
    /\ rpc' = IF NotStarted \/ record_stop_event THEN "finish" ELSE "call_read"
    /\ UNCHANGED <<webcamVars, restVars, camera, streaming, recording, record_stop_event,
                   streaming_lock, recording_lock, cam_opened, gpc, spc, ppc,
                   r_handle>>

\* record_loop: self.camera.read() is called, no lock held; on None the
\* AttributeError ends the loop
RCallRead ==
    /\ rpc = "call_read"
    /\ IF camera = 0
       THEN rpc' = "finish" /\ UNCHANGED r_handle
       ELSE rpc' = "reading" /\ r_handle' = camera
    /\ UNCHANGED <<webcamVars, restVars, camera, streaming, recording, record_stop_event,
                   streaming_lock, recording_lock, cam_opened, gpc, spc, ppc>>

\* record_loop: the read has returned: continue (after a failed read, or
\* after out.write and the sleep), or break when the frames are complete
RReadReturns ==
    /\ rpc = "reading"
    /\ r_handle' = 0
    /\ rpc' \in {"loop", "finish"}
    /\ UNCHANGED <<webcamVars, restVars, camera, streaming, recording, record_stop_event,
                   streaming_lock, recording_lock, cam_opened, gpc, spc, ppc>>

\* record_loop's finally: recording = False; the join returns and record()
\* returns, releasing recording_lock
RFinish ==
    /\ rpc = "finish"
    /\ recording' = FALSE
    /\ recording_lock' = "free"
    /\ rpc' = "idle"
    /\ UNCHANGED <<webcamVars, restVars, camera, streaming, record_stop_event,
                   streaming_lock, cam_opened, gpc, spc, ppc, r_handle>>

\* a further record() request arrives and waits for recording_lock
R2Call ==
    /\ call.r2pc = "idle"
    /\ call' = [call EXCEPT !.r2pc = "lock_wait", !.r2_during = recording,
                            !.r2_result = "none"]
    /\ UNCHANGED <<webcamVars, driversVars, cameraVars>>

\* the waiting record() gets recording_lock: "Already recording", "Camera
\* not started", or it starts its recording, which rpc then follows
R2Enter ==
    /\ call.r2pc = "lock_wait"
    /\ recording_lock = "free"
    /\ IF recording
       THEN /\ call' = [call EXCEPT !.r2pc = "idle",
                                    !.r2_result = "Already recording"]
            /\ UNCHANGED <<recording, record_stop_event, recording_lock, rpc>>
       ELSE IF NotStarted
       THEN /\ call' = [call EXCEPT !.r2pc = "idle",
                                    !.r2_result = "Camera not started"]
            /\ UNCHANGED <<recording, record_stop_event, recording_lock, rpc>>
       ELSE /\ call' = [call EXCEPT !.r2pc = "idle", !.r2_result = "recording"]
            /\ recording' = TRUE
            /\ record_stop_event' = FALSE
            /\ recording_lock' = "record"
            /\ rpc' = "loop"
    /\ UNCHANGED <<webcamVars, driversVars, camera, streaming, streaming_lock,
                   cam_opened, gpc, spc, ppc, r_handle>>

\* switch_camera takes streaming_lock
XBegin ==
    /\ call.xpc = "idle"
    /\ streaming_lock = "free"
    /\ streaming_lock' = "switch_camera"
    /\ call' = [call EXCEPT !.xpc = "stop_call", !.x_result = "none"]
    /\ UNCHANGED <<webcamVars, driversVars, camera, streaming, recording,
                   record_stop_event, recording_lock, cam_opened, gpc, spc,
                   ppc, rpc, r_handle>>

\* switch_camera calls self.stop(), which waits for streaming_lock; once it
\* has it: the camera is released, stop() returns, the new camera is opened
\* (streaming = True) or not (camera = None), and switch_camera returns
XStopAndOpen ==
    /\ call.xpc = "stop_call"
    /\ IF streaming_lock = "free"
       THEN /\ record_stop_event' = (record_stop_event \/ recording)
            /\ \/ /\ cam_opened < MaxCameraOpens
                  /\ cam_opened' = cam_opened + 1
                  /\ camera' = cam_opened + 1
                  /\ streaming' = TRUE
                  /\ call' = [call EXCEPT !.xpc = "idle",
                                          !.x_result = "switched"]
               \/ /\ camera' = 0
                  /\ streaming' = FALSE
                  /\ call' = [call EXCEPT !.xpc = "idle",
                                          !.x_result = "unable"]
                  /\ UNCHANGED cam_opened
       ELSE UNCHANGED <<camera, streaming, record_stop_event, cam_opened, call>>
    /\ UNCHANGED <<webcamVars, driversVars, recording, streaming_lock,
                   recording_lock, gpc, spc, ppc, rpc, r_handle>>

\* The threads inside camera.read() on handle c, and stop() inside
\* camera.release() on it.
Readers(c) ==
    (IF gpc = "reading" /\ camera = c THEN {"get_frame"} ELSE {})
        \cup (IF spc = "reading" /\ camera = c THEN {"gen_stream"} ELSE {})
        \cup (IF rpc = "reading" /\ r_handle = c THEN {"record_loop"} ELSE {})

Releasing(c) == ppc = "releasing" /\ camera = c

\* ------------------------------------- logitech_web_camera: CameraManager
\* start_camera, line 23: the camera is already in the table, or go to open
MgrStartCheck(t) ==
    /\ mgr.pc[t] = "idle"
    /\ mgr' = [mgr EXCEPT !.pc[t] = IF mgr.cameras # 0 THEN "idle" ELSE "open"]
    /\ UNCHANGED notManager

\* lines 26-29: a new Lock and a new VideoCapture; return if it did not open
MgrStartOpen(t) ==
    /\ mgr.pc[t] = "open"
    /\ \/ /\ mgr.caps_opened < MaxCaps
          /\ mgr' = [mgr EXCEPT !.caps_opened = @ + 1,
                                !.cap[t] = mgr.caps_opened + 1,
                                !.pc[t] = "store_cameras"]
       \/ mgr' = [mgr EXCEPT !.pc[t] = "idle"]
    /\ UNCHANGED notManager

\* line 47: self.cameras[camera_id] = {'cap': cap, 'lock': lock, ...}
MgrStartStoreCameras(t) ==
    /\ mgr.pc[t] = "store_cameras"
    /\ mgr' = [mgr EXCEPT !.cameras = mgr.cap[t], !.pc[t] = "store_locks"]
    /\ UNCHANGED notManager

\* lines 50-51: self.locks[camera_id] = lock; the lock made with VideoCapture
\* n is lock n
MgrStartStoreLocks(t) ==
    /\ mgr.pc[t] = "store_locks"
    /\ mgr' = [mgr EXCEPT !.locks = mgr.cap[t], !.pc[t] = "idle", !.cap[t] = 0]
    /\ UNCHANGED notManager

\* stop_camera, line 55: not active, or go on to the lock
MgrStopCheck(t) ==
    /\ mgr.pc[t] = "idle"
    /\ mgr' = [mgr EXCEPT !.pc[t] = IF mgr.cameras = 0 THEN "idle"
                                    ELSE "acquire"]
    /\ UNCHANGED notManager

\* line 57: with self.locks[camera_id]: KeyError without an entry, else wait
\* for that lock
MgrStopAcquire(t) ==
    /\ mgr.pc[t] = "acquire"
    /\ IF mgr.locks = 0
       THEN mgr' = [mgr EXCEPT !.pc[t] = "idle"]
       ELSE /\ mgr.locks \notin mgr.lock_held
            /\ mgr' = [mgr EXCEPT !.lock_held = @ \cup {mgr.locks},
                                  !.cap[t] = mgr.locks,
                                  !.pc[t] = "release"]
    /\ UNCHANGED notManager

\* lines 58-59: cap = self.cameras[camera_id]['cap'] (KeyError without an
\* entry: the with statement gives the lock back); cap.release()
MgrStopRelease(t) ==
    /\ mgr.pc[t] = "release"
    /\ IF mgr.cameras = 0
       THEN mgr' = [mgr EXCEPT !.pc[t] = "idle",
                               !.lock_held = @ \ {mgr.cap[t]},
                               !.cap[t] = 0]
       ELSE mgr' = [mgr EXCEPT !.caps_released = @ \cup {mgr.cameras},
                               !.pc[t] = "del"]
    /\ UNCHANGED notManager

\* lines 60-62: del self.cameras[camera_id]; del self.locks[camera_id] (each
\* a KeyError without an entry); the lock is given back
MgrStopDelCameras(t) ==
    /\ mgr.pc[t] = "del"
    /\ IF mgr.cameras = 0
       THEN mgr' = [mgr EXCEPT !.pc[t] = "idle",
                               !.lock_held = @ \ {mgr.cap[t]},
                               !.cap[t] = 0]
       ELSE mgr' = [mgr EXCEPT !.cameras = 0, !.pc[t] = "del_locks"]
    /\ UNCHANGED notManager

MgrStopDelLocks(t) ==
    /\ mgr.pc[t] = "del_locks"
    /\ mgr' = [mgr EXCEPT !.locks = 0, !.lock_held = @ \ {mgr.cap[t]},
                          !.cap[t] = 0, !.pc[t] = "idle"]
    /\ UNCHANGED notManager

\* ---------------------------------------- logitech_brio_505: CameraManager
\* CameraInstance.is_running of the table's entry for camera i. Every
\* CameraInstance.lock is taken only while manager_lock is held, so it is
\* never waited for and is left out.
BrioIsRunning(i) ==
    /\ i \in brio.cameras
    /\ brio.running[i]
    /\ brio.cap[i] # 0
    /\ brio.cap[i] \in brio.is_opened

\* The cameras table with its instances' running flags and captures, and
\* the captures created, open and released.
BrioTable ==
    <<brio.cameras, brio.running, brio.cap, brio.opened, brio.is_opened,
      brio.released>>

\* start_camera or stop_camera is called for camera i and takes manager_lock
BrioEnter(t, i, op) ==
    /\ brio.pc[t] = "idle"
    /\ brio.manager_lock = "free"
    /\ brio' = [brio EXCEPT !.manager_lock = t, !.pc[t] = op, !.id[t] = i,
                            !.result[t] = "none"]
    /\ UNCHANGED notBrio

\* start_camera, lines 75-76, ignoring the test
BrioStartCheckIgnoresRunning(t) ==
    /\ brio.pc[t] = "start_check"
    /\ brio' = [brio EXCEPT !.pc[t] = "start_open"]
    /\ UNCHANGED notBrio

\* start_camera, lines 75-76
BrioStartCheck(t) ==
    /\ brio.pc[t] = "start_check"
    /\ IF BrioIsRunning(brio.id[t])
       THEN brio' = [brio EXCEPT !.result[t] = "already running",
                                 !.pc[t] = "idle",
                                 !.manager_lock = "free"]
       ELSE brio' = [brio EXCEPT !.pc[t] = "start_open"]
    /\ UNCHANGED notBrio

\* start_camera, lines 77-81, with CameraInstance.start: the capture opens
\* and the instance is stored, or it does not and nothing is stored
BrioStartOpen(t) ==
    /\ brio.pc[t] = "start_open"
    /\ \/ /\ brio.opened < MaxBrioCaps
          /\ brio' = [brio EXCEPT !.opened = @ + 1,
                                  !.is_opened = @ \cup {brio.opened + 1},
                                  !.cameras = @ \cup {brio.id[t]},
                                  !.running[brio.id[t]] = TRUE,
                                  !.cap[brio.id[t]] = brio.opened + 1,
                                  !.result[t] = "started",
                                  !.pc[t] = "idle",
                                  !.manager_lock = "free"]
       \/ brio' = [brio EXCEPT !.result[t] = "cannot open",
                               !.pc[t] = "idle",
                               !.manager_lock = "free"]
    /\ UNCHANGED notBrio

\* stop_camera, lines 85-87
BrioStopCheck(t) ==
    /\ brio.pc[t] = "stop_check"
    /\ IF ~BrioIsRunning(brio.id[t])
       THEN brio' = [brio EXCEPT !.result[t] = "not running",
                                 !.pc[t] = "idle",
                                 !.manager_lock = "free"]
       ELSE brio' = [brio EXCEPT !.pc[t] = "stop_release"]
    /\ UNCHANGED notBrio

\* stop_camera, lines 88-90, with CameraInstance.stop
BrioStopRelease(t) ==
    /\ brio.pc[t] = "stop_release"
    /\ brio' = [brio EXCEPT !.released = @ \cup {brio.cap[brio.id[t]]},
                            !.is_opened = @ \ {brio.cap[brio.id[t]]},
                            !.cap[brio.id[t]] = 0,
                            !.running[brio.id[t]] = FALSE,
                            !.cameras = @ \ {brio.id[t]},
                            !.result[t] = "stopped",
                            !.pc[t] = "idle",
                            !.manager_lock = "free"]
    /\ UNCHANGED notBrio

\* the device of an open capture goes away: cap.isOpened() is False from now
BrioDeviceLost ==
    /\ \E c \in brio.is_opened : brio' = [brio EXCEPT !.is_opened = @ \ {c}]
    /\ UNCHANGED notBrio

\* -------------------------- rs_ws_n_01_8_ex sensor: ModbusCollector.run
\* min(self._backoff_current, self.cfg.backoff_max_sec), lines 127 and 177
WaitSeconds == Min(col.backoff_current, col.backoff_max_sec)

\* min(self._backoff_current * 2, ...), lines 130 and 180, without the * 2
NextBackoffCurrentSame == Min(col.backoff_current, col.backoff_max_sec)

\* min(self._backoff_current * 2, self.cfg.backoff_max_sec), lines 130, 180
NextBackoffCurrent == Min(col.backoff_current * 2, col.backoff_max_sec)

\* ModbusCollector.stop, called by handle_signal
ColStop ==
    /\ ~col.stop_event
    /\ col' = [col EXCEPT !.stop_event = TRUE]
    /\ UNCHANGED notCollector

\* lines 123-125: while not self._stop_event.is_set(); if _client is None
ColLoop ==
    /\ col.pc = "loop"
    /\ col' = [col EXCEPT !.pc = IF col.stop_event THEN "cleanup"
                                 ELSE IF col.client = "none" THEN "connect"
                                 ELSE "poll"]
    /\ UNCHANGED notCollector

\* _connect returns True (lines 71-80): the backoff is reset
ColConnectOk ==
    /\ col.pc = "connect"
    /\ col' = [col EXCEPT !.client = "connected",
                          !.backoff_current = col.backoff_initial_sec,
                          !.nwaits = 0,
                          !.pc = "poll"]
    /\ UNCHANGED notCollector

\* _connect returns False (lines 81-86; the client it built stays in
\* _client), and run starts its wait (lines 127-129)
ColConnectFail ==
    /\ col.pc = "connect"
    /\ col.nwaits < MaxWaits
    /\ col' = [col EXCEPT !.client = "built",
                          !.wait_s = WaitSeconds,
                          !.remaining = WaitSeconds,
                          !.pc = "backoff_wait"]
    /\ UNCHANGED notCollector

\* a second of a self._stop_event.wait(...) passes, whether or not the
\* event is set
ColWaitTickIgnoresStop ==
    /\ col.pc \in {"backoff_wait", "poll_wait"}
    /\ col.remaining > 0
    /\ col' = [col EXCEPT !.remaining = @ - 1]
    /\ UNCHANGED notCollector

\* a second of a self._stop_event.wait(...) passes (lines 129, 171, 179)
ColWaitTick ==
    /\ col.pc \in {"backoff_wait", "poll_wait"}
    /\ ~col.stop_event
    /\ col.remaining > 0
    /\ col' = [col EXCEPT !.remaining = @ - 1]
    /\ UNCHANGED notCollector

\* the backoff wait returns, on its timeout or because the event is set, and
\* the backoff is doubled (lines 130-131 and 180)
ColBackoffWaitEnd ==
    /\ col.pc = "backoff_wait"
    /\ col.stop_event \/ col.remaining = 0
    /\ col' = [col EXCEPT !.backoff_current = NextBackoffCurrent,
                          !.nwaits = @ + 1,
                          !.remaining = 0,
                          !.pc = "loop"]
    /\ UNCHANGED notCollector

\* lines 133-171: both reads succeed (the library connects a client that is
\* not connected when it is asked to read) and the poll wait starts
ColPollOk ==
    /\ col.pc = "poll"
    /\ col' = [col EXCEPT !.client = "connected",
                          !.remaining = poll_interval_sec,
                          !.pc = "poll_wait"]
    /\ UNCHANGED notCollector

\* lines 173-179: a read raises; _disconnect, and the backoff wait starts
ColPollFail ==
    /\ col.pc = "poll"
    /\ col.nwaits < MaxWaits
    /\ col' = [col EXCEPT !.client = "none",
                          !.wait_s = WaitSeconds,
                          !.remaining = WaitSeconds,
                          !.pc = "backoff_wait"]
    /\ UNCHANGED notCollector

\* the poll wait returns (line 171)
ColPollWaitEnd ==
    /\ col.pc = "poll_wait"
    /\ col.stop_event \/ col.remaining = 0
    /\ col' = [col EXCEPT !.remaining = 0, !.pc = "loop"]
    /\ UNCHANGED notCollector

\* lines 182-184 with _disconnect (88-96): close the client, _client = None
ColCleanup ==
    /\ col.pc = "cleanup"
    /\ col' = [col EXCEPT !.client = "none", !.pc = "done"]
    /\ UNCHANGED notCollector

CollectorNext ==
    \/ ColLoop
    \/ ColConnectOk
    \/ ColConnectFail
    \/ ColWaitTick
    \/ ColBackoffWaitEnd
    \/ ColPollOk
    \/ ColPollFail
    \/ ColPollWaitEnd
    \/ ColCleanup

\* ------------------------------------------- usb_camera: CameraStreamer
\* a method whose body starts with `with self.lock:` is called and gets the
\* lock: start_stream, stop_stream and capture_image by the routes, open by
\* the device status thread
KsEnter(t, op) ==
    /\ ks.pc[t] = "idle"
    /\ ks.lock = "free"
    /\ ks' = [ks EXCEPT !.lock = t, !.pc[t] = op]
    /\ UNCHANGED notStreamer

\* The capture after the body of open (lines 101-106) has run: the one that
\* is there, or a new one (opened says whether it opened, else cap is None)
KsOpened(opens) ==
    IF ks.cap # 0 THEN [ks EXCEPT !.cap = @]
    ELSE IF opens THEN [ks EXCEPT !.opened = @ + 1, !.cap = ks.opened + 1]
    ELSE [ks EXCEPT !.cap = 0]

\* the body of open (lines 101-106) under the lock, called by the status
\* thread
KsOpenBody(t) ==
    /\ ks.pc[t] = "open"
    /\ \E opens \in BOOLEAN :
           /\ opens => (ks.cap = 0 /\ ks.opened < MaxStreamerCaps)
           /\ ks' = [KsOpened(opens) EXCEPT !.lock = "free", !.pc[t] = "idle"]
    /\ UNCHANGED notStreamer

\* start_stream, lines 116-118, holding the lock: return when streaming,
\* else call self.open()
KsStartStream(t) ==
    /\ ks.pc[t] = "start_stream"
    /\ IF ks.streaming
       THEN ks' = [ks EXCEPT !.lock = "free", !.pc[t] = "idle"]
       ELSE ks' = [ks EXCEPT !.pc[t] = "start_open"]
    /\ UNCHANGED notStreamer

\* capture_image, lines 168-169, holding the lock: call self.open()
KsCaptureImage(t) ==
    /\ ks.pc[t] = "capture_image"
    /\ ks' = [ks EXCEPT !.pc[t] = "capture_open"]
    /\ UNCHANGED notStreamer

\* self.open() called from start_stream or capture_image: `with self.lock`
\* (line 100) waits until the lock is free; then open runs and the caller
\* goes on (lines 119-124: streaming = True and the frame thread starts;
\* lines 170-177: one read) and returns
KsNestedOpen(t) ==
    /\ ks.pc[t] \in {"start_open", "capture_open"}
    /\ IF ks.lock = "free"
       THEN \E opens \in BOOLEAN :
               /\ opens => (ks.cap = 0 /\ ks.opened < MaxStreamerCaps)
               /\ LET o == KsOpened(opens)
                      started == ks.pc[t] = "start_open" /\ o.cap # 0
                  IN  ks' = [o EXCEPT !.streaming = @ \/ started,
                                      !.stop_request = @ /\ ~started,
                                      !.pc[t] = "idle"]
       ELSE UNCHANGED ks
    /\ UNCHANGED notStreamer

\* stop_stream, lines 127-131: the flags under the lock; frame_thread is
\* joined if there is one
KsStopStream(t) ==
    /\ ks.pc[t] = "stop_stream"
    /\ ks' = [ks EXCEPT !.streaming = FALSE, !.stop_request = TRUE,
                        !.lock = "free", !.pc[t] = "close_call"]
    /\ UNCHANGED notStreamer

\* stop_stream, line 132: self.close() gets the lock
KsCloseEnter(t) ==
    /\ ks.pc[t] = "close_call"
    /\ ks.lock = "free"
    /\ ks' = [ks EXCEPT !.lock = t, !.pc[t] = "close"]
    /\ UNCHANGED notStreamer

\* the body of close (lines 110-112)
KsCloseBody(t) ==
    /\ ks.pc[t] = "close"
    /\ ks' = [ks EXCEPT !.released = IF ks.cap # 0 THEN @ \cup {ks.cap} ELSE @,
                        !.cap = 0, !.lock = "free", !.pc[t] = "idle"]
    /\ UNCHANGED notStreamer

\* --------------------------------- logitech_usb_camera: CameraManager
\* start_capture, stop_capture and get_frame run under self.lock, so they
\* are atomic to one another; _update_frame takes no lock.
\* start_capture, lines 33-34: a session is running
LuStartCaptureAgain ==
    /\ lu.capture # 0
    /\ lu.running
    /\ UNCHANGED vars

\* start_capture, lines 35-43: a new capture, running = True, a new thread
LuStartCapture ==
    /\ ~(lu.capture # 0 /\ lu.running)
    /\ lu.sessions < MaxSessions
    /\ lu' = [lu EXCEPT !.sessions = @ + 1,
                        !.capture = lu.sessions + 1,
                        !.running = TRUE,
                        !.frame_pc[lu.sessions + 1] = "loop"]
    /\ UNCHANGED notSession

\* stop_capture, lines 46-52
LuStopCapture ==
    /\ lu' = [lu EXCEPT !.running = FALSE, !.capture = 0, !.last_frame = 0]
    /\ UNCHANGED notSession

\* get_frame, lines 63-67: the frame it returns (0: RuntimeError), with the
\* session it is asked in
LuGetFrame ==
    /\ lu' = [lu EXCEPT !.got = <<IF lu.running THEN lu.last_frame ELSE 0,
                                  lu.sessions>>]
    /\ UNCHANGED notSession

\* _update_frame, line 55: while self.running
FrameLoop(i) ==
    /\ lu.frame_pc[i] = "loop"
    /\ lu' = [lu EXCEPT !.frame_pc[i] = IF lu.running THEN "check" ELSE "dead"]
    /\ UNCHANGED notSession

\* line 56: if self.capture
FrameCheck(i) ==
    /\ lu.frame_pc[i] = "check"
    /\ lu' = [lu EXCEPT !.frame_pc[i] = IF lu.capture # 0 THEN "read_call"
                                        ELSE "sleep"]
    /\ UNCHANGED notSession

\* line 57: self.capture.read is looked up (AttributeError when capture is
\* None: the thread dies) and called
FrameReadCall(i) ==
    /\ lu.frame_pc[i] = "read_call"
    /\ IF lu.capture = 0
       THEN lu' = [lu EXCEPT !.frame_pc[i] = "crashed"]
       ELSE lu' = [lu EXCEPT !.frame_pc[i] = "reading",
                             !.frame_cap[i] = lu.capture]
    /\ UNCHANGED notSession

\* line 57: read() returns a frame or ret = False
FrameReadReturns(i) ==
    /\ lu.frame_pc[i] = "reading"
    /\ \/ lu' = [lu EXCEPT !.frame_local[i] = lu.frame_cap[i],
                            !.frame_pc[i] = "store",
                            !.frame_cap[i] = 0]
       \/ lu' = [lu EXCEPT !.frame_pc[i] = "sleep", !.frame_cap[i] = 0]
    /\ UNCHANGED notSession

\* lines 58-59: self.last_frame = frame
FrameStore(i) ==
    /\ lu.frame_pc[i] = "store"
    /\ lu' = [lu EXCEPT !.last_frame = lu.frame_local[i],
                        !.frame_local[i] = 0,
                        !.frame_pc[i] = "sleep"]
    /\ UNCHANGED notSession

\* line 60: time.sleep returns
FrameSleepEnd(i) ==
    /\ lu.frame_pc[i] = "sleep"
    /\ lu' = [lu EXCEPT !.frame_pc[i] = "loop"]
    /\ UNCHANGED notSession

FrameThreadsAlive ==
    {i \in 1..MaxSessions : lu.frame_pc[i] \notin {"unborn", "dead", "crashed"}}

\* ------------------------ usb_camera_device_fake_test: CameraStreamer
\* run, line 36: self.running = True
CsRunBegin(i) ==
    /\ fk.cs_pc[i] = "started"
    /\ fk' = [fk EXCEPT !.cs_running[i] = TRUE, !.cs_pc[i] = "open"]
    /\ UNCHANGED notFake

\* run, lines 37-40: the capture opens, or it does not and run returns
CsOpen(i) ==
    /\ fk.cs_pc[i] = "open"
    /\ \/ fk' = [fk EXCEPT !.cs_capture[i] = TRUE, !.cs_pc[i] = "loop"]
       \/ fk' = [fk EXCEPT !.cs_running[i] = FALSE, !.cs_pc[i] = "exited"]
    /\ UNCHANGED notFake

\* run, lines 44-55: one pass of the loop, which stores a frame or not
CsFrame(i) ==
    /\ fk.cs_pc[i] = "loop"
    /\ fk.cs_running[i]
    /\ \/ fk' = [fk EXCEPT !.last_frame = i]
       \/ UNCHANGED fk
    /\ UNCHANGED notFake

\* run, lines 44 and 67-68: running is False; release the capture and end
CsLeave(i) ==
    /\ fk.cs_pc[i] = "loop"
    /\ ~fk.cs_running[i]
    /\ fk' = [fk EXCEPT !.cs_capture[i] = FALSE, !.cs_pc[i] = "exited"]
    /\ UNCHANGED notFake

\* start_streaming, lines 83-84
FkStartCheck(t) ==
    /\ fk.pc[t] = "idle"
    /\ fk' = [fk EXCEPT !.pc[t] = IF fk.streaming THEN "idle"
                                  ELSE "start_thread"]
    /\ UNCHANGED notFake

\* start_streaming, lines 85-87: a new CameraStreamer is started
FkStartThread(t) ==
    /\ fk.pc[t] = "start_thread"
    /\ fk.created < MaxStreamers
    /\ fk' = [fk EXCEPT !.created = @ + 1,
                        !.camera_streamer = fk.created + 1,
                        !.cs_pc[fk.created + 1] = "started",
                        !.pc[t] = "start_flag"]
    /\ UNCHANGED notFake

\* start_streaming, lines 88-89: streaming = True
FkStartFlag(t) ==
    /\ fk.pc[t] = "start_flag"
    /\ fk' = [fk EXCEPT !.streaming = TRUE, !.pc[t] = "idle"]
    /\ UNCHANGED notFake

\* stop_streaming, lines 93-94
FkStopCheck(t) ==
    /\ fk.pc[t] = "idle"
    /\ fk' = [fk EXCEPT !.pc[t] = IF fk.streaming THEN "stop_thread"
                                  ELSE "idle"]
    /\ UNCHANGED notFake

\* stop_streaming, lines 95-97: camera_streamer.stop(); camera_streamer = None
FkStopThread(t) ==
    /\ fk.pc[t] = "stop_thread"
    /\ fk' = [fk EXCEPT !.cs_running =
                            IF fk.camera_streamer # 0
                            THEN [@ EXCEPT ![fk.camera_streamer] = FALSE]
                            ELSE @,
                        !.camera_streamer = 0,
                        !.pc[t] = "stop_flag"]
    /\ UNCHANGED notFake

\* stop_streaming, lines 98-99: streaming = False
FkStopFlag(t) ==
    /\ fk.pc[t] = "stop_flag"
    /\ fk' = [fk EXCEPT !.streaming = FALSE, !.pc[t] = "idle"]
    /\ UNCHANGED notFake

\* The CameraStreamer threads that were started and have not ended.
StreamersAlive ==
    {i \in 1..MaxStreamers : fk.cs_pc[i] \notin {"unborn", "exited"}}

\* The CameraStreamer threads whose capture is open and not yet released.
StreamersHolding ==
    {i \in StreamersAlive : fk.cs_capture[i]}

\* ---------------------------------------------------------- specifications
\* logitech_camera: requests to start, capture, stream, record and stop, in
\* any interleaving.
NextCamera ==
    \/ CStart
    \/ GBegin
    \/ GReadReturns
    \/ SConnect
    \/ SBegin
    \/ SReadReturns
    \/ PBegin
    \/ PReleaseReturns
    \/ PRecordingLock
    \/ RBegin
    \/ RLoop
    \/ RCallRead
    \/ RReadReturns
    \/ RFinish

SpecCamera == Init /\ [][NextCamera]_vars

\* logitech_web_camera: the requests call start_camera and stop_camera.
NextManager ==
    \E t \in Requests :
        \/ MgrStartCheck(t)
        \/ MgrStartOpen(t)
        \/ MgrStartStoreCameras(t)
        \/ MgrStartStoreLocks(t)
        \/ MgrStopCheck(t)
        \/ MgrStopAcquire(t)
        \/ MgrStopRelease(t)
        \/ MgrStopDelCameras(t)
        \/ MgrStopDelLocks(t)

SpecManager == Init /\ [][NextManager]_vars

\* logitech_brio_505: the requests call start_camera and stop_camera.
NextBrio ==
    \/ \E t \in BrioRequests :
        \/ \E i \in BrioIds : BrioEnter(t, i, "start_check")
        \/ \E i \in BrioIds : BrioEnter(t, i, "stop_check")
        \/ BrioStartCheck(t)
        \/ BrioStartOpen(t)
        \/ BrioStopCheck(t)
        \/ BrioStopRelease(t)
    \/ BrioDeviceLost

SpecBrio == Init /\ [][NextBrio]_vars

\* rs_ws_n_01_8_ex sensor: the collector thread and the signal handler, over
\* the configurations.
InitCollector ==
    /\ backoff_initial_ms = 1
    /\ backoff_max_ms = 3
    /\ \E i \in SecInitialChoices, x \in SecMaxChoices :
           col = CollectorStart(i, x)
    /\ InitState

NextCollector ==
    \/ CollectorNext
    \/ ColStop

SpecCollector == InitCollector /\ [][NextCollector]_vars

\* The collector thread is scheduled again and again.
FairCollector ==
    /\ InitCollector
    /\ [][NextCollector]_vars
    /\ WF_vars(CollectorNext)

\* usb_camera: the routes call start_stream, stop_stream and capture_image;
\* the device status thread calls open.
NextStreamer ==
    \/ \E t \in StreamerRequests :
        \/ KsEnter(t, "start_stream")
        \/ KsEnter(t, "stop_stream")
        \/ KsEnter(t, "capture_image")
        \/ KsStartStream(t)
        \/ KsCaptureImage(t)
        \/ KsNestedOpen(t)
        \/ KsStopStream(t)
        \/ KsCloseEnter(t)
        \/ KsCloseBody(t)
    \/ KsEnter("status", "open")
    \/ KsOpenBody("status")

SpecStreamer == Init /\ [][NextStreamer]_vars

\* logitech_usb_camera: the routes and the frame threads.
NextSession ==
    \/ LuStartCaptureAgain
    \/ LuStartCapture
    \/ LuStopCapture
    \/ LuGetFrame
    \/ \E i \in 1..MaxSessions :
        \/ FrameLoop(i)
        \/ FrameCheck(i)
        \/ FrameReadCall(i)
        \/ FrameReadReturns(i)
        \/ FrameStore(i)
        \/ FrameSleepEnd(i)

SpecSession == Init /\ [][NextSession]_vars

\* usb_camera_device_fake_test: the routes and the CameraStreamer threads.
NextFake ==
    \/ \E t \in FakeRequests :
        \/ FkStartCheck(t)
        \/ FkStartThread(t)
        \/ FkStartFlag(t)
        \/ FkStopCheck(t)
        \/ FkStopThread(t)
        \/ FkStopFlag(t)
    \/ \E i \in 1..MaxStreamers :
        \/ CsRunBegin(i)
        \/ CsOpen(i)
        \/ CsFrame(i)
        \/ CsLeave(i)

SpecFake == Init /\ [][NextFake]_vars

\* logitech_camera with a second record() request.
NextRecord ==
    \/ NextCamera
    \/ R2Call
    \/ R2Enter

SpecRecord == Init /\ [][NextRecord]_vars

\* logitech_camera with a switch_camera request; every thread is scheduled
\* again and again.
NextSwitch ==
    \/ NextCamera
    \/ XBegin
    \/ XStopAndOpen

FairSwitch ==
    /\ Init
    /\ [][NextSwitch]_vars
    /\ WF_vars(NextCamera)
    /\ WF_vars(XStopAndOpen)

\* The whole driver: the clock, the worker, stop() and the stream handlers.
Next ==
    \/ Tick
    \/ WorkerNext
    \/ StopNext
    \/ \E h \in Handlers : HandlerNext(h)

Spec == Init /\ [][Next]_vars

\* The worker alone, under every configuration of the backoff.
InitConfigs ==
    /\ backoff_initial_ms \in InitialChoices
    /\ backoff_max_ms \in MaxChoices
    /\ col = CollectorStart(1, 3)
    /\ InitState

NextWorker ==
    \/ Tick
    \/ WorkerNext

SpecWorker == InitConfigs /\ [][NextWorker]_vars

\* The worker and the stream handlers; stop() is not called.
NextStream ==
    \/ Tick
    \/ WorkerNext
    \/ \E h \in Handlers : HandlerNext(h)

SpecStream == Init /\ [][NextStream]_vars

\* One stream handler and the worker, every thread scheduled again and again.
HandlerStep(h) == HGet(h) \/ HSkip(h) \/ HSend(h) \/ HWriteFail(h)

NextOneStream ==
    \/ Tick
    \/ WorkerNext
    \/ HandlerNext("h1")

FairStream ==
    /\ Init
    /\ [][NextOneStream]_vars
    /\ WF_vars(Tick)
    /\ WF_vars(WorkerNext)
    /\ WF_vars(HandlerStep("h1"))

\* The worker and stop(), the worker thread scheduled again and again.
NextStop ==
    \/ Tick
    \/ WorkerNext
    \/ StopNext

FairWorker ==
    /\ Init
    /\ [][NextStop]_vars
    /\ WF_vars(WorkerNext)

\* The worker and the snapshot requests.
NextFrame ==
    \/ Tick
    \/ WorkerNext
    \/ HandleFrame

SpecFrame == Init /\ [][NextFrame]_vars

\* The worker and any number of calls of stop(), one after the other.
NextStops ==
    \/ Tick
    \/ WorkerNext
    \/ StopNext
    \/ MStopAgain

SpecStops == Init /\ [][NextStops]_vars

\* main with its signal handler and the worker: every thread is scheduled
\* again and again, server.shutdown() returns when is_shut_down is set, and
\* the loop of serve_forever ends when it finds the shutdown request.
NextMain ==
    \/ Tick
    \/ WorkerNext
    \/ MSignal
    \/ MShutdownReturns
    \/ MServeForeverEnds
    \/ MServerClose
    \/ MainStop
    \/ MainEnd

FairMain ==
    /\ Init
    /\ [][NextMain]_vars
    /\ WF_vars(WorkerNext)
    /\ WF_vars(MShutdownReturns)
    /\ WF_vars(shutdown_request /\ MServeForeverEnds)
    /\ WF_vars(MServerClose)
    /\ WF_vars(MainStop)
    /\ WF_vars(MainEnd)

\* One stream handler whose client may disconnect, the worker and stop():
\* every thread is scheduled again and again, and of the writes to a client
\* that has disconnected one fails.
NextStreamEnd ==
    \/ Tick
    \/ WorkerNext
    \/ StopNext
    \/ HandlerNext("h1")
    \/ HDisconnect("h1")

FairStreamEnd ==
    /\ Init
    /\ [][NextStreamEnd]_vars
    /\ WF_vars(WorkerNext)
    /\ WF_vars(StopNext)
    /\ WF_vars(HandlerStep("h1"))
    /\ SF_vars(gone["h1"] /\ HWriteFail("h1"))

\* ------------------------------------------------------------------ claims
RECURSIVE Pow(_, _)
Pow(b, k) == IF k = 0 THEN 1 ELSE b * Pow(b, k - 1)

\* C1: the capture handle is touched only by the worker thread: stop() is
\* never inside a call on the handle while the worker thread is still alive,
\* and no two threads are inside a call on a handle at the same time.
CaptureOnlyByWorker ==
    /\ mpc = "releasing" => wpc = "done"
    /\ ~(mpc = "releasing" /\ WorkerInDeviceCall)

\* C2: every publish stores a stamp strictly greater than the stamp of the
\* publish before it.
PublishStampsIncrease == [][npub' # npub => last_ts' > last_ts]_vars

\* C3: the stamps of the frames a stream handler has written to its client
\* are strictly increasing.
StreamStampsIncrease ==
    \A h \in Handlers : \A i, j \in DOMAIN sent[h] :
        i < j => sent[h][i][2] < sent[h][j][2]

\* C3 witness: a handler has written two frames.
StreamSentTwo == \E h \in Handlers : Len(sent[h]) >= 2

\* C4 as claimed: a handler drops no frame: after the frame of publish k the
\* next frame it writes is that of publish k + 1.
FanOutNoDrops ==
    \A h \in Handlers : \A i \in DOMAIN sent[h] :
        i < Len(sent[h]) => sent[h][i + 1][1] = sent[h][i][1] + 1

\* C4 as amended: every handler writes published frames in publish order and
\* none of them twice; it may skip frames.
FanOutOrdered ==
    \A h \in Handlers : \A i \in DOMAIN sent[h] :
        /\ sent[h][i][1] \in 1..npub
        /\ i < Len(sent[h]) => sent[h][i][1] < sent[h][i + 1][1]

\* C4 witness: several frames were published and every handler wrote them all.
FanOutAllSent == npub >= 2 /\ \A h \in Handlers : Len(sent[h]) = npub

\* C5: a connected handler that last sent stamp S, with a frame of a greater
\* stamp in the slot, eventually sends a frame of a greater stamp (or its
\* write fails).
NoLostWakeup ==
    \A h \in Handlers : \A S \in 0..MaxClock :
        (hpc[h] \in {"get", "check"} /\ last_sent_ts[h] = S /\ last_ts > S)
            ~> (last_sent_ts[h] > S \/ hpc[h] = "done")

\* C5 witness: the handler holds a frame it has already sent, taken before
\* the check, while the slot already holds a newer one.
StalePollDuringPublish ==
    \E h \in Handlers :
        /\ hpc[h] = "check"
        /\ last_sent_ts[h] > 0
        /\ h_ts[h] <= last_sent_ts[h]
        /\ last_ts > last_sent_ts[h]

\* C6 as claimed: the delay slept after the k-th failed open in a row is
\* initial * multiplier^(k-1), capped at backoff_max_ms.
BackoffPerFailedOpen ==
    (wpc = "sleep_backoff" /\ nfailedOpens >= 1) =>
        delay = Min(backoff_initial_ms * Pow(backoff_multiplier, nfailedOpens - 1),
                    backoff_max_ms)

\* C6 as amended: counting every backoff sleep since the last successful open
\* (or the start), the staleness sleep included, the delay after k earlier
\* sleeps is initial * multiplier^k capped at backoff_max_ms when initial >= 1;
\* with initial = 0 it is 0 first and then multiplier^k capped; no delay
\* exceeds backoff_max_ms.
BackoffGrowthAndCap ==
    wpc = "sleep_backoff" =>
        /\ delay <= backoff_max_ms
        /\ backoff_initial_ms >= 1 =>
               delay = Min(backoff_initial_ms * Pow(backoff_multiplier, nsleeps),
                           backoff_max_ms)
        /\ backoff_initial_ms = 0 =>
               delay = IF nsleeps = 0 THEN 0
                       ELSE Min(Pow(backoff_multiplier, nsleeps), backoff_max_ms)

\* C6 witness: the third failed open in a row sleeps the maximum.
BackoffReachedCap ==
    /\ wpc = "sleep_backoff"
    /\ nfailedOpens >= 3
    /\ backoff_initial_ms < backoff_max_ms
    /\ delay = backoff_max_ms

\* C7: a successful open by itself leaves the backoff as it is.
OpenAloneKeepsBackoff ==
    [][(wpc = "opening" /\ cap' # 0) => backoff_ms' = backoff_ms]_vars

\* C8: once an iteration finds the capture stale, the handle is released and
\* cleared and the worker attempts to open again, unless it is stopped.
StaleReconnects ==
    \A c \in 1..MaxOpens :
        (/\ wpc = "stale_check"
         /\ cap = c
         /\ last_success_ts > 0
         /\ now - last_success_ts > stale_timeout_sec)
            ~> ((wpc = "opening" /\ cap = 0 /\ relCount[c] >= 1) \/ stop_event)

\* C8 witness: the worker is opening again after it released a stale handle.
StaleReopenAttempt ==
    /\ wpc = "opening"
    /\ cap = 0
    /\ relCount[1] >= 1
    /\ ~stop_event

\* C9: the worker releases the handle only when a read has failed since the
\* last successful frame (or open): encode failures alone never lead there.
EncodeFailureKeepsConnection == wpc = "releasing" => readFailSinceSuccess

\* C10: get_latest_frame is empty exactly when no frame was ever published.
LatestEmptyIffNeverPublished == (GetLatestFrame[1] = 0) <=> (npub = 0)

\* C10 witness: after a disconnect and a failed reopen the frame is still
\* returned.
FrameKeptAfterDisconnect ==
    /\ npub >= 1
    /\ cap = 0
    /\ nfailedOpens >= 1
    /\ relCount[1] >= 1
    /\ GetLatestFrame[1] # 0

\* C17: a failed read within stale_timeout_sec of the last successful frame
\* leaves the capture handle open and the slot and the backoff as they are,
\* and the worker sleeps the loop sleep and reads again.
TransientReadFailure ==
    [][/\ (wpc = "reading" /\ wpc' = "stale_check") =>
              (cap' = cap /\ backoff_ms' = backoff_ms /\ slotVars' = slotVars)
       /\ (/\ wpc = "stale_check"
           /\ readFailSinceSuccess
           /\ now - last_success_ts <= stale_timeout_sec) =>
              /\ wpc' \in {"stale_check", "sleep_loop"}
              /\ cap # 0
              /\ cap' = cap /\ backoff_ms' = backoff_ms /\ slotVars' = slotVars
       /\ (wpc = "sleep_loop" /\ readFailSinceSuccess) =>
              /\ wpc' \in {"sleep_loop", "loop"}
              /\ cap # 0
              /\ cap' = cap /\ backoff_ms' = backoff_ms /\ slotVars' = slotVars
       /\ (wpc = "loop" /\ readFailSinceSuccess /\ cap # 0 /\ ~stop_event) =>
              /\ wpc' \in {"loop", "reading"}
              /\ cap' = cap /\ backoff_ms' = backoff_ms /\ slotVars' = slotVars
      ]_vars

\* C17 witness: the worker reads again after a failed read, the frame
\* published before it still in the slot.
ReadsAgainAfterFailedRead ==
    /\ wpc = "reading"
    /\ readFailSinceSuccess
    /\ cap # 0
    /\ last_jpeg # 0

\* C18: once the stop event is set the worker thread terminates: a sleep in
\* progress takes no further step (the worker's next step leaves the sleep),
\* the loop exits at its next condition check, and the thread, once ended,
\* stays ended.
StopEndsWorker ==
    /\ [][/\ (stop_event /\ wpc \in {"sleep_backoff", "sleep_loop"}) =>
                 (workerVars' = workerVars \/ wpc' = "loop")
          /\ (stop_event /\ wpc = "loop") => wpc' \in {"loop", "done"}
          /\ wpc = "done" => wpc' = "done"
         ]_vars
    /\ (stop_event ~> wpc = "done")

\* C18 witness: the stop event is set while a backoff sleep has steps left.
StopDuringBackoffSleep ==
    /\ stop_event
    /\ wpc = "sleep_backoff"
    /\ remaining > 0

\* C15: open failures are never fatal: the worker thread does not end while
\* the stop event is not set, and through the failed opens consumers get
\* "no frame available" from get_latest_frame.
OpenFailuresNeverFatal ==
    /\ ~stop_event => wpc # "done"
    /\ (nfailedOpens >= 1 /\ cap = 0) => GetLatestFrame[1] = 0

\* C15, the retry: after a failed open the worker attempts another open,
\* unless it is stopped.
FailedOpenRetried ==
    \A k \in 1..MaxFails :
        (wpc = "sleep_backoff" /\ nfailedOpens = k)
            ~> ((wpc = "opening" /\ nfailedOpens = k) \/ stop_event)

\* C11: a snapshot request handled while the worker holds no open capture
\* handle is answered with 503.
SnapshotUnavailableWhenDisconnected ==
    (frame_status # 0 /\ frame_disconnected) => frame_status = 503

\* C12: no capture handle is released twice, and once stop() has returned
\* (and the worker thread has ended) every handle that was opened has been
\* released.
ReleasedExactlyOnce ==
    /\ \A c \in 1..MaxOpens : relCount[c] <= 1
    /\ (mpc = "stopped" /\ wpc = "done") =>
           \A c \in 1..opened : relCount[c] = 1

\* C13: after a shutdown signal is delivered, shutdown completes: the signal
\* handler returns, the stop event is set, the worker thread ends and main
\* reaches its end.  (Whether every handle is released by then is C12.)
SignalShutdownCompletes ==
    stopping ~> (/\ sig_pc = "returned"
                 /\ stop_event
                 /\ wpc = "done"
                 /\ main_pc = "end")

\* C14: a /stream handler whose client has disconnected, or that runs while
\* the process is shutting down, eventually leaves its loop.
StreamLoopTerminates ==
    \A h \in Handlers :
        (hpc[h] \in {"get", "check"} /\ (gone[h] \/ stop_event))
            ~> hpc[h] = "done"

\* C16: no torn reads: in every state get_latest_frame returns nothing or
\* the pair one publish stored, and the pair a stream handler obtains from it
\* is the pair of the last publish before the read.
NoTornReads ==
    /\ [](GetLatestFrame[1] # 0 => GetLatestFrame = pub_pair)
    /\ [][\A h \in Handlers :
              (hpc[h] = "get" /\ hpc'[h] = "check") =>
                  <<h_jpeg'[h], h_ts'[h]>> = pub_pair
         ]_vars

\* C16 witness: a handler holds the pair of an earlier publish while the
\* writer has already stored the next one.
ReaderOvertakenByWriter ==
    \E h \in Handlers :
        /\ hpc[h] = "check"
        /\ h_jpeg[h] # 0
        /\ h_jpeg[h] < last_jpeg

\* C19: two successive frames written to one client are sent at least
\* stream_min_interval_ms apart: from a state at time c with k frames written,
\* at most one more frame is written before time c + min_interval.
MinIntervalBetweenSends ==
    \A h \in Handlers : \A c \in 1..MaxClock : \A k \in 0..MaxFrames :
        []((clock = c /\ Len(sent[h]) = k) =>
               [](clock < c + min_interval => Len(sent[h]) <= k + 1))

\* C20: logitech_camera: no two threads are inside camera.read() on the
\* same handle at the same time, and no thread is inside camera.read() on a
\* handle while stop() is releasing it.
ReadsMutuallyExclusive ==
    \A c \in 1..MaxCameraOpens :
        /\ Cardinality(Readers(c)) <= 1
        /\ Releasing(c) => Readers(c) = {}

\* C21: logitech_camera: a record() request that arrives while a recording
\* is in progress returns "Already recording" and starts no recording.
RecordRejectsSecond ==
    (call.r2_during /\ call.r2_result # "none")
        => call.r2_result = "Already recording"

\* C27: logitech_camera: switch_camera always returns, with streaming True
\* and a camera exactly when the new device could be opened.
SwitchCameraReturns ==
    /\ [](call.x_result = "switched" => (streaming /\ camera # 0))
    /\ [](call.x_result = "unable" => (~streaming /\ camera = 0))
    /\ (call.xpc = "stop_call" ~> call.xpc = "idle")

\* C22: logitech_web_camera: whatever the interleaving of start_camera and
\* stop_camera for one camera_id, no VideoCapture is created and left
\* unreleased outside the table, and once the calls have returned the
\* cameras and locks tables have the same keys.
ManagerThreadSafe ==
    (\A t \in Requests : mgr.pc[t] = "idle") =>
        /\ \A c \in 1..mgr.caps_opened :
               c \in mgr.caps_released \/ c = mgr.cameras
        /\ (mgr.cameras = 0) <=> (mgr.locks = 0)

\* C23: logitech_brio_505: start_camera for a camera that is running and
\* stop_camera for a camera that is not running return failure, and no step
\* of such a call changes the cameras table, a running flag or a capture.
BrioRejectedCallChangesNothing ==
    [][\A t \in BrioRequests :
        /\ (brio.pc[t] = "idle" /\ brio'.pc[t] # "idle")
               => BrioTable' = BrioTable
        /\ (/\ brio.pc[t] = "start_check"
            /\ brio'.pc[t] # "start_check"
            /\ BrioIsRunning(brio.id[t]))
               => /\ brio'.pc[t] = "idle"
                  /\ brio'.result[t] = "already running"
                  /\ BrioTable' = BrioTable
        /\ (/\ brio.pc[t] = "stop_check"
            /\ brio'.pc[t] # "stop_check"
            /\ ~BrioIsRunning(brio.id[t]))
               => /\ brio'.pc[t] = "idle"
                  /\ brio'.result[t] = "not running"
                  /\ BrioTable' = BrioTable]_vars

BrioBothRejected ==
    /\ brio.result["b1"] = "already running"
    /\ brio.result["b2"] = "not running"
    /\ brio.cameras # {}

\* C24: Modbus collector: every backoff wait is min(_backoff_current,
\* backoff_max_sec); the k-th wait in a row since the last successful connect
\* (or the start) is backoff_initial_sec * 2^k capped at backoff_max_sec, and
\* a successful connect resets _backoff_current to backoff_initial_sec.
CollectorBackoffDoubles ==
    /\ col.pc = "backoff_wait" =>
           /\ col.wait_s = Min(col.backoff_initial_sec * Pow(2, col.nwaits),
                               col.backoff_max_sec)
           /\ col.wait_s <= col.backoff_max_sec
    /\ col.nwaits = 0 => col.backoff_current = col.backoff_initial_sec

CollectorThirdWaitCapped ==
    /\ col.pc = "backoff_wait"
    /\ col.nwaits = 2
    /\ col.backoff_initial_sec = 1
    /\ col.backoff_max_sec = 2
    /\ col.wait_s = 2

\* C25: Modbus collector: once stop() is called the thread leaves the loop,
\* closes the client and ends with _client None, and no wait goes on while
\* the stop event is set.
CollectorStops ==
    /\ col.stop_event ~> (col.pc = "done" /\ col.client = "none")
    /\ [][(/\ col.stop_event
            /\ col.pc \in {"backoff_wait", "poll_wait"}
            /\ col'.pc = col.pc) => col'.remaining = col.remaining]_vars

CollectorStoppedInBackoffWait ==
    /\ col.stop_event
    /\ col.pc = "backoff_wait"
    /\ col.remaining > 1

\* C26: usb_camera: no thread asks for self.lock while it holds it, so no
\* CameraStreamer call waits for ever on a lock of its own.
StreamerNeverWaitsOnOwnLock ==
    \A t \in StreamerThreads :
        ~(/\ ks.pc[t] \in {"start_open", "capture_open", "close_call"}
          /\ ks.lock = t)

\* C28: logitech_usb_camera: at most one _update_frame thread is alive at
\* any time, and no two threads are inside read() of the same capture.
OneFrameThread ==
    /\ Cardinality(FrameThreadsAlive) <= 1
    /\ \A i, j \in 1..MaxSessions :
           (i # j /\ lu.frame_pc[i] = "reading" /\ lu.frame_pc[j] = "reading")
               => lu.frame_cap[i] # lu.frame_cap[j]

\* C29: logitech_usb_camera: after stop_capture last_frame is None until a
\* frame of a later session is read; get_frame never returns a frame of an
\* earlier session; the frame thread never uses a capture that is None.
NoFrameAcrossSessions ==
    /\ lu.last_frame # 0 => (lu.running /\ lu.last_frame = lu.sessions)
    /\ lu.got[1] # 0 => lu.got[1] = lu.got[2]
    /\ \A i \in 1..MaxSessions : lu.frame_pc[i] # "crashed"

\* C30: usb_camera_device_fake_test: when no start or stop request is under
\* way, streaming is True only if a CameraStreamer thread is alive.
StreamingOnlyWithThread ==
    ((\A t \in FakeRequests : fk.pc[t] = "idle") /\ fk.streaming)
        => StreamersAlive # {}

\* C31: usb_camera_device_fake_test: whatever the interleaving of
\* start_streaming and stop_streaming requests (two starts at once, a stop
\* followed at once by a start), at most one CameraStreamer thread is alive
\* with the device open.
OneStreamerHoldsDevice ==
    Cardinality(StreamersHolding) <= 1

====
